---- MODULE Spec2Model ----
(***************************************************************************)
(* Model of lora/CircuitPython/node1/code.py: a single LoRa node that      *)
(* sends one startup message and then loops forever, polling the radio for *)
(* a packet, rendering it on the display, and transmitting a numbered      *)
(* message whenever more than transmit_interval seconds have elapsed.      *)
(*                                                                         *)
(* Time is counted in ticks; TicksPerHalfSecond ticks make 0.5 s.  The     *)
(* monotonic clock advances only inside the calls that block: receive      *)
(* (up to the driver's timeout), time.sleep and send.  A timed wait lasts   *)
(* its nominal duration or longer, by up to Overrun ticks.  The clock     *)
(* stops at the horizon MaxTime: a blocking call is begun only while its   *)
(* nominal duration fits, so the horizon never decides what receive        *)
(* returns.                                                                *)
(***************************************************************************)
EXTENDS Integers, Sequences, FiniteSets, TLC

VARIABLES pc, clock, now, counter, node, destination, led, splash, frames,
          packet, last_rssi, mode, sent, refreshes,
          iter, iterStart, polls, rxCount, txCount, rxTotal, rxTime,
          rssiReads, rssiValue, loopStart

vars == <<pc, clock, now, counter, node, destination, led, splash, frames,
          packet, last_rssi, mode, sent, refreshes,
          iter, iterStart, polls, rxCount, txCount, rxTotal, rxTime,
          rssiReads, rssiValue, loopStart>>

\* ---------------------------------------------------------------- bounds
\* resolution of the clock: ticks per 0.5 s
TicksPerHalfSecond == 1
\* horizon of the monotonic clock, in ticks
MaxTime == 10
\* longest time a send call blocks, in ticks
SendMax == 1
\* the most a timed wait (time.sleep, the receive timeout) lasts beyond its
\* nominal duration, in ticks
Overrun == 1

\* ------------------------------------------------------ program constants
transmit_interval == 1
WIDTH == 128
HEIGHT == 64
\* the radio driver's broadcast address, the default of node and destination
BROADCAST == 255

\* transmit_interval seconds, in ticks
IntervalTicks == transmit_interval * 2 * TicksPerHalfSecond
\* the 0.5 s of time.sleep(0.5), in ticks: the least the sleep lasts
DwellTicks == TicksPerHalfSecond
\* the timeout of rfm9x.receive (0.5 s), in ticks: the least the wait lasts
\* when nothing arrives
ReceiveTimeoutTicks == TicksPerHalfSecond

None == <<>>

\* ------------------------------------------------------------ formatting
\* A str is the sequence of its code points and a bytes object the sequence
\* of its byte values; a literal is written out with its text in a comment.

\* the decimal digit d as a one-character str
Digit(d) == <<48 + d>>

RECURSIVE NatStr(_)
NatStr(n) == IF n < 10 THEN Digit(n) ELSE NatStr(n \div 10) \o Digit(n % 10)

\* "{}".format(i) of an int; 45 is the minus sign
IntStr(i) == IF i < 0 THEN <<45>> \o NatStr(0 - i) ELSE NatStr(i)

\* the lower-case hexadecimal digit d as a one-character str: 0-9, a-f
HexDigit(d) == IF d < 10 THEN Digit(d) ELSE <<87 + d>>

\* the one-character str whose code point is the byte b
Chr(b) == <<b>>

\* repr of one byte inside a bytes literal, quoting aside: backslash (92),
\* tab, newline and carriage return are escaped as \\ \t \n \r, the other
\* printable bytes 32 to 126 stand for themselves, all others are written
\* \xNN (120 is the letter x)
ByteRepr(b) ==
  CASE b = 92 -> <<92, 92>>
    [] b = 9 -> <<92, 116>>
    [] b = 10 -> <<92, 110>>
    [] b = 13 -> <<92, 114>>
    [] b >= 32 /\ b <= 126 /\ b # 92 -> Chr(b)
    [] b < 32 /\ b # 9 /\ b # 10 /\ b # 13 -> <<92, 120>> \o HexDigit(b \div 16) \o HexDigit(b % 16)
    [] b > 126 -> <<92, 120>> \o HexDigit(b \div 16) \o HexDigit(b % 16)

\* the quote the repr puts around the bytes: the double quote (34) when
\* they hold a single quote (39) and no double quote, else the single quote
QuoteByte(s) ==
  IF (\E i \in DOMAIN s : s[i] = 39) /\ ~(\E i \in DOMAIN s : s[i] = 34)
  THEN 34 ELSE 39

\* one byte inside the quotes q: the quote itself is escaped
QuotedByte(b, q) == IF b = q THEN <<92>> \o Chr(b) ELSE ByteRepr(b)

RECURSIVE BytesBody(_, _)
BytesBody(s, q) ==
  IF s = <<>> THEN <<>> ELSE QuotedByte(Head(s), q) \o BytesBody(Tail(s), q)

\* "{0}".format(bytes(...)): the repr of a bytes object; 98 is the letter b
BytesRepr(s) ==
  <<98>> \o Chr(QuoteByte(s)) \o BytesBody(s, QuoteByte(s)) \o Chr(QuoteByte(s))

\* the UTF-8 encoding of one code point, in one to four bytes; the
\* surrogates 55296 to 57343 cannot be encoded (the call raises) and have
\* no value here
Utf8Char(c) ==
  CASE c < 128 -> <<c>>
    [] c >= 128 /\ c < 2048 -> <<192 + (c \div 64), 128 + (c % 64)>>
    [] (c >= 2048 /\ c < 55296) \/ (c > 57343 /\ c < 65536) ->
         <<224 + (c \div 4096), 128 + ((c \div 64) % 64), 128 + (c % 64)>>
    [] c >= 65536 ->
         <<240 + (c \div 262144), 128 + ((c \div 4096) % 64),
           128 + ((c \div 64) % 64), 128 + (c % 64)>>

\* bytes(s, "UTF-8")
RECURSIVE Utf8(_)
Utf8(s) == IF s = <<>> THEN <<>> ELSE Utf8Char(Head(s)) \o Utf8(Tail(s))

\* packet[4:]
Payload(p) == SubSeq(p, 5, Len(p))

\* "Startup message {} from node {}".format(c, n)
StartupText(c, n) ==
  <<83, 116, 97, 114, 116, 117, 112, 32, 109, 101, 115, 115, 97, 103, 101, 32>> \o IntStr(c)
  \o <<32, 102, 114, 111, 109, 32, 110, 111, 100, 101, 32>> \o IntStr(n)
\* "msg num {} node {}".format(c, n)
PeriodicText(c, n) ==
  <<109, 115, 103, 32, 110, 117, 109, 32>> \o IntStr(c)
  \o <<32, 110, 111, 100, 101, 32>> \o IntStr(n)

\* ------------------------------------------------------------- the display
Background == [kind |-> "tilegrid", x |-> 0, y |-> 0, w |-> WIDTH, h |-> HEIGHT, color |-> 0]
Label(t, px, py) == [kind |-> "label", text |-> t, x |-> px, y |-> py, color |-> 16777215]

text3(p) == BytesRepr(Payload(p))
\* "RSSI: {0}".format(rssi)
text2(rssi) == <<82, 83, 83, 73, 58, 32>> \o IntStr(rssi)

\* ------------------------------------------------------- the environment
Dests == {1, 2, BROADCAST}
\* b'hello' and the four bytes single quote, grave accent, backslash, NUL
Payloads == {<<104, 101, 108, 108, 111>>, <<39, 96, 92, 0>>}
Rssis == {0 - 42, 0 - 120}
\* a received packet: 4 header bytes (destination, source, id, flags) + payload
Packets == {<<d, 2, 0, 0>> \o pl : d \in Dests, pl \in Payloads}

\* --------------------------------------------------------------- startup
Init ==
  /\ pc = "addr"
  /\ clock = 0
  /\ now = 0
  /\ counter = 0
  /\ node = BROADCAST
  /\ destination = BROADCAST
  /\ led = FALSE
  /\ splash = <<>>
  /\ frames = 0
  /\ packet = None
  /\ last_rssi = 0
  /\ mode = "idle"
  /\ sent = <<>>
  /\ refreshes = 0
  /\ iter = 0
  /\ iterStart = 0
  /\ polls = 0
  /\ rxCount = 0
  /\ txCount = 0
  /\ rxTotal = 0
  /\ rxTime = 0
  /\ rssiReads = 0
  /\ rssiValue = 0
  /\ loopStart = 0

\* what rfm9x.send puts on the air: the header is taken from the radio object
Message(kind, data, keep) ==
  [kind |-> kind, data |-> data, dest |-> destination, from |-> node,
   keep_listening |-> keep, time |-> clock, iter |-> iter]

\* lines 52-55
SetAddresses ==
  /\ pc = "addr"
  /\ node' = 1
  /\ destination' = 2
  /\ counter' = 0
  /\ pc' = "startup"
  /\ UNCHANGED <<rssiReads, rssiValue, loopStart, polls, clock, now, led, splash, frames, packet, last_rssi, mode,
                 sent, refreshes, iter, iterStart, rxCount, txCount, rxTotal, rxTime>>

\* lines 57-59
StartupSend ==
  /\ pc = "startup"
  /\ \E d \in 0..SendMax :
       /\ clock + d <= MaxTime
       /\ clock' = clock + d
  /\ sent' = Append(sent, Message("startup", Utf8(StartupText(counter, node)), FALSE))
  /\ mode' = "idle"
  /\ pc' = "setnow"
  /\ UNCHANGED <<rssiReads, rssiValue, loopStart, polls, now, counter, node, destination, led, splash, frames, packet,
                 last_rssi, refreshes, iter, iterStart, rxCount, txCount, rxTotal, rxTime>>

\* lines 63-65
SetNow ==
  /\ pc = "setnow"
  /\ now' = clock
  /\ led' = TRUE
  /\ loopStart' = clock
  /\ pc' = "frame"
  /\ UNCHANGED <<rssiReads, rssiValue, polls, clock, counter, node, destination, splash, frames, packet,
                 last_rssi, mode, sent, refreshes, iter, iterStart, rxCount,
                 txCount, rxTotal, rxTime>>

\* ------------------------------------------------------------- main loop
\* lines 69-77 with the group of line 69 created once, before the loop
NewFrame_SameGroup ==
  /\ pc = "frame"
  /\ splash' = Append(splash, Background)
  /\ frames' = frames + 1
  /\ iter' = iter + 1
  /\ iterStart' = clock
  /\ rxCount' = 0
  /\ txCount' = 0
  /\ rssiReads' = 0
  /\ pc' = "led_off"
  /\ UNCHANGED <<rssiValue, loopStart, polls, clock, now, counter, node, destination, led, packet,
                 last_rssi, mode, sent, refreshes, rxTotal, rxTime>>

\* lines 69-77
NewFrame ==
  /\ pc = "frame"
  /\ splash' = <<Background>>
  /\ frames' = frames + 1
  /\ iter' = iter + 1
  /\ iterStart' = clock
  /\ rxCount' = 0
  /\ txCount' = 0
  /\ rssiReads' = 0
  /\ pc' = "led_off"
  /\ UNCHANGED <<rssiValue, loopStart, polls, clock, now, counter, node, destination, led, packet,
                 last_rssi, mode, sent, refreshes, rxTotal, rxTime>>

\* line 79 left out
LedOff_Missing ==
  /\ pc = "led_off"
  /\ led' = led
  /\ pc' = "receive"
  /\ UNCHANGED <<rssiReads, rssiValue, loopStart, polls, clock, now, counter, node, destination, splash, frames, packet,
                 last_rssi, mode, sent, refreshes, iter, iterStart, rxCount,
                 txCount, rxTotal, rxTime>>

\* line 79
LedOff ==
  /\ pc = "led_off"
  /\ led' = FALSE
  /\ pc' = "receive"
  /\ UNCHANGED <<rssiReads, rssiValue, loopStart, polls, clock, now, counter, node, destination, splash, frames, packet,
                 last_rssi, mode, sent, refreshes, iter, iterStart, rxCount,
                 txCount, rxTotal, rxTime>>

\* lines 82-84 with a timeout raised as an exception
ReceiveNone_Raises ==
  /\ pc = "receive"
  /\ \E d \in ReceiveTimeoutTicks..(ReceiveTimeoutTicks + Overrun) :
       /\ clock + d <= MaxTime
       /\ clock' = clock + d
  /\ packet' = None
  /\ mode' = "rx"
  /\ polls' = polls + 1
  /\ pc' = "error"
  /\ UNCHANGED <<rssiReads, rssiValue, loopStart, now, counter, node, destination, led, splash, frames,
                 last_rssi, sent, refreshes, iter, iterStart, rxCount, txCount,
                 rxTotal, rxTime>>

\* lines 82-84 with line 94 moved out of the if of line 84
ReceiveNone_ReadsRssi ==
  /\ pc = "receive"
  /\ \E d \in ReceiveTimeoutTicks..(ReceiveTimeoutTicks + Overrun) :
       /\ clock + d <= MaxTime
       /\ clock' = clock + d
  /\ packet' = None
  /\ mode' = "rx"
  /\ polls' = polls + 1
  /\ rssiReads' = rssiReads + 1
  /\ rssiValue' = last_rssi
  /\ pc' = "check"
  /\ UNCHANGED <<loopStart, now, counter, node, destination, led, splash, frames,
                 last_rssi, sent, refreshes, iter, iterStart, rxCount, txCount,
                 rxTotal, rxTime>>

\* lines 82-84, nothing arrived during the timeout
ReceiveNone ==
  /\ pc = "receive"
  /\ \E d \in ReceiveTimeoutTicks..(ReceiveTimeoutTicks + Overrun) :
       /\ clock + d <= MaxTime
       /\ clock' = clock + d
  /\ packet' = None
  /\ mode' = "rx"
  /\ polls' = polls + 1
  /\ pc' = "check"
  /\ UNCHANGED <<rssiReads, rssiValue, loopStart, now, counter, node, destination, led, splash, frames,
                 last_rssi, sent, refreshes, iter, iterStart, rxCount, txCount,
                 rxTotal, rxTime>>

\* lines 82-84 with line 84 also testing packet[0] == rfm9x.node
ReceivePacket_Filtered ==
  /\ pc = "receive"
  /\ clock + ReceiveTimeoutTicks <= MaxTime
  /\ \E p \in Packets, r \in Rssis, d \in 0..ReceiveTimeoutTicks :
       /\ clock' = clock + d
       /\ packet' = p
       /\ last_rssi' = r
  /\ rxTime' = clock'
  /\ rxTotal' = rxTotal + 1
  /\ mode' = "rx"
  /\ polls' = polls + 1
  /\ pc' = IF packet'[1] = node THEN "render" ELSE "check"
  /\ UNCHANGED <<rssiReads, rssiValue, loopStart, now, counter, node, destination, led, splash, frames,
                 sent, refreshes, iter, iterStart, rxCount, txCount>>

\* lines 82-84, a packet arrived d ticks into the wait; the call is begun
\* only while its timeout fits into the horizon, whatever it then returns
ReceivePacket ==
  /\ pc = "receive"
  /\ clock + ReceiveTimeoutTicks <= MaxTime
  /\ \E p \in Packets, r \in Rssis, d \in 0..ReceiveTimeoutTicks :
       /\ clock' = clock + d
       /\ packet' = p
       /\ last_rssi' = r
  /\ rxTime' = clock'
  /\ rxTotal' = rxTotal + 1
  /\ mode' = "rx"
  /\ polls' = polls + 1
  /\ pc' = "render"
  /\ UNCHANGED <<rssiReads, rssiValue, loopStart, now, counter, node, destination, led, splash, frames,
                 sent, refreshes, iter, iterStart, rxCount, txCount>>

\* lines 87-100 also restarting the transmit timer
Render_ResetsTimer ==
  /\ pc = "render"
  /\ splash' = splash \o <<Label(text3(packet), 0, 10), Label(text2(last_rssi), 0, 25)>>
  /\ refreshes' = refreshes + 1
  /\ rxCount' = rxCount + 1
  /\ rssiReads' = rssiReads + 2
  /\ rssiValue' = last_rssi
  /\ now' = clock
  /\ pc' = "led_on"
  /\ UNCHANGED <<loopStart, polls, clock, counter, node, destination, led, frames, packet,
                 last_rssi, mode, sent, iter, iterStart, txCount, rxTotal, rxTime>>

\* lines 87-100
Render ==
  /\ pc = "render"
  /\ splash' = splash \o <<Label(text3(packet), 0, 10), Label(text2(last_rssi), 0, 25)>>
  /\ refreshes' = refreshes + 1
  /\ rxCount' = rxCount + 1
  /\ rssiReads' = rssiReads + 2
  /\ rssiValue' = last_rssi
  /\ pc' = "led_on"
  /\ UNCHANGED <<loopStart, polls, clock, now, counter, node, destination, led, frames, packet,
                 last_rssi, mode, sent, iter, iterStart, txCount, rxTotal, rxTime>>

\* line 101
LedOn ==
  /\ pc = "led_on"
  /\ led' = TRUE
  /\ pc' = "sleep"
  /\ UNCHANGED <<rssiReads, rssiValue, loopStart, polls, clock, now, counter, node, destination, splash, frames, packet,
                 last_rssi, mode, sent, refreshes, iter, iterStart, rxCount,
                 txCount, rxTotal, rxTime>>

\* line 102 with line 103 as the else branch of line 84
Sleep_SkipsCheck ==
  /\ pc = "sleep"
  /\ \E d \in DwellTicks..(DwellTicks + Overrun) :
       /\ clock + d <= MaxTime
       /\ clock' = clock + d
  /\ pc' = "frame"
  /\ UNCHANGED <<rssiReads, rssiValue, loopStart, polls, now, counter, node, destination, led, splash, frames, packet,
                 last_rssi, mode, sent, refreshes, iter, iterStart, rxCount,
                 txCount, rxTotal, rxTime>>

\* line 102 sleeping twice
Sleep_TwoDwells ==
  /\ pc = "sleep"
  /\ \E d \in (2 * DwellTicks)..(2 * DwellTicks + 2 * Overrun) :
       /\ clock + d <= MaxTime
       /\ clock' = clock + d
  /\ pc' = "check"
  /\ UNCHANGED <<rssiReads, rssiValue, loopStart, polls, now, counter, node, destination, led, splash, frames, packet,
                 last_rssi, mode, sent, refreshes, iter, iterStart, rxCount,
                 txCount, rxTotal, rxTime>>

\* line 102
Sleep ==
  /\ pc = "sleep"
  /\ \E d \in DwellTicks..(DwellTicks + Overrun) :
       /\ clock + d <= MaxTime
       /\ clock' = clock + d
  /\ pc' = "check"
  /\ UNCHANGED <<rssiReads, rssiValue, loopStart, polls, now, counter, node, destination, led, splash, frames, packet,
                 last_rssi, mode, sent, refreshes, iter, iterStart, rxCount,
                 txCount, rxTotal, rxTime>>

\* the comparison of line 103 written with >=
TransmitDue_AtLeast(t, last) == t - last >= IntervalTicks

\* the condition of line 103
TransmitDue(t, last) == t - last > IntervalTicks

\* line 103
Check ==
  /\ pc = "check"
  /\ pc' = IF TransmitDue(clock, now) THEN "stamp" ELSE "frame"
  /\ UNCHANGED <<rssiReads, rssiValue, loopStart, polls, clock, now, counter, node, destination, led, splash, frames,
                 packet, last_rssi, mode, sent, refreshes, iter, iterStart,
                 rxCount, txCount, rxTotal, rxTime>>

\* line 104 written as now = now + transmit_interval
Stamp_AdvancesByInterval ==
  /\ pc = "stamp"
  /\ now' = now + IntervalTicks
  /\ pc' = "incr"
  /\ UNCHANGED <<rssiReads, rssiValue, loopStart, polls, clock, counter, node, destination, led, splash, frames,
                 packet, last_rssi, mode, sent, refreshes, iter, iterStart,
                 rxCount, txCount, rxTotal, rxTime>>

\* line 104
Stamp ==
  /\ pc = "stamp"
  /\ now' = clock
  /\ pc' = "incr"
  /\ UNCHANGED <<rssiReads, rssiValue, loopStart, polls, clock, counter, node, destination, led, splash, frames,
                 packet, last_rssi, mode, sent, refreshes, iter, iterStart,
                 rxCount, txCount, rxTotal, rxTime>>

\* line 105 adding 2
Increment_Twice ==
  /\ pc = "incr"
  /\ counter' = counter + 2
  /\ pc' = "send"
  /\ UNCHANGED <<rssiReads, rssiValue, loopStart, polls, clock, now, node, destination, led, splash, frames,
                 packet, last_rssi, mode, sent, refreshes, iter, iterStart,
                 rxCount, txCount, rxTotal, rxTime>>

\* line 105
Increment ==
  /\ pc = "incr"
  /\ counter' = counter + 1
  /\ pc' = "send"
  /\ UNCHANGED <<rssiReads, rssiValue, loopStart, polls, clock, now, node, destination, led, splash, frames,
                 packet, last_rssi, mode, sent, refreshes, iter, iterStart,
                 rxCount, txCount, rxTotal, rxTime>>

\* lines 107-113 leaving the loop after the first periodic message
PeriodicSend_Once ==
  /\ pc = "send"
  /\ \E d \in 0..SendMax :
       /\ clock + d <= MaxTime
       /\ clock' = clock + d
  /\ sent' = Append(sent, Message("periodic", Utf8(PeriodicText(counter, node)), TRUE))
  /\ txCount' = txCount + 1
  /\ mode' = "rx"
  /\ pc' = IF counter >= 1 THEN "halt" ELSE "frame"
  /\ UNCHANGED <<rssiReads, rssiValue, loopStart, polls, now, counter, node, destination, led, splash, frames,
                 packet, last_rssi, refreshes, iter, iterStart, rxCount,
                 rxTotal, rxTime>>

\* lines 107-113 without keep_listening=True
PeriodicSend_StopsListening ==
  /\ pc = "send"
  /\ \E d \in 0..SendMax :
       /\ clock + d <= MaxTime
       /\ clock' = clock + d
  /\ sent' = Append(sent, Message("periodic", Utf8(PeriodicText(counter, node)), FALSE))
  /\ txCount' = txCount + 1
  /\ mode' = "idle"
  /\ pc' = "frame"
  /\ UNCHANGED <<rssiReads, rssiValue, loopStart, polls, now, counter, node, destination, led, splash, frames,
                 packet, last_rssi, refreshes, iter, iterStart, rxCount,
                 rxTotal, rxTime>>

\* lines 107-113
PeriodicSend ==
  /\ pc = "send"
  /\ \E d \in 0..SendMax :
       /\ clock + d <= MaxTime
       /\ clock' = clock + d
  /\ sent' = Append(sent, Message("periodic", Utf8(PeriodicText(counter, node)), TRUE))
  /\ txCount' = txCount + 1
  /\ mode' = "rx"
  /\ pc' = "frame"
  /\ UNCHANGED <<rssiReads, rssiValue, loopStart, polls, now, counter, node, destination, led, splash, frames,
                 packet, last_rssi, refreshes, iter, iterStart, rxCount,
                 rxTotal, rxTime>>

Next ==
  \/ SetAddresses
  \/ StartupSend
  \/ SetNow
  \/ NewFrame
  \/ LedOff
  \/ ReceiveNone
  \/ ReceivePacket
  \/ Render
  \/ LedOn
  \/ Sleep
  \/ Check
  \/ Stamp
  \/ Increment
  \/ PeriodicSend

Spec == Init /\ [][Next]_vars

\* the loop is the only thread: a step that can be taken is taken
LiveSpec == Init /\ [][Next]_vars /\ WF_vars(Next)

\* ------------------------------------------------------- shared notions
Periodic == {i \in DOMAIN sent : sent[i].kind = "periodic"}
Startups == {i \in DOMAIN sent : sent[i].kind = "startup"}
\* the iteration has run to its end: the next frame is about to be built
IterationEnd == pc = "frame" /\ iter >= 1
\* a packet was received in the current iteration
GotPacket == rxCount = 1

\* ------------------------------------------------------------------- C1
\* C1 (as stated): at the transmit check a periodic transmit is started if
\* and only if the elapsed time since the last transmit is >= the transmit
\* interval, and no two periodic transmits lie within one interval.
C1_AsStated ==
  /\ [][pc = "check" => ((pc' = "stamp") <=> (clock - now >= IntervalTicks))]_vars
  /\ [](\A i, j \in Periodic : i < j => sent[j].time - sent[i].time >= IntervalTicks)

\* C1 (amended): at the transmit check a periodic transmit is started if and
\* only if the elapsed time since the last transmit is strictly greater than
\* the transmit interval; any two periodic transmits, and the loop's initial
\* timestamp and the first periodic transmit, are more than one interval apart.
C1_TransmitIffElapsedExceeds ==
  /\ [][pc = "check" => ((pc' = "stamp") <=> (clock - now > IntervalTicks))]_vars
  /\ [][pc = "stamp" => (pc' = "incr" /\ now' = clock /\ now' - now > IntervalTicks)]_vars
  /\ [](\A i, j \in Periodic : i < j => sent[j].time - sent[i].time > IntervalTicks)

\* a check made exactly one interval after a periodic transmit started none
C1_Witness ==
  /\ IterationEnd
  /\ txCount = 0
  /\ clock - now = IntervalTicks
  /\ Cardinality(Periodic) >= 2

\* ------------------------------------------------------------------- C2
\* C2: the counter is 0 at the startup send and changes only in the
\* increment of a periodic transmit, by exactly 1; the n-th message sent
\* (n = 1 the startup message) embeds the value n - 1, so the transmitted
\* values are 0, 1, 2, ... with none skipped or repeated.
C2_CounterSequence ==
  /\ [][counter' # counter => (pc = "incr" /\ pc' = "send" /\ counter' = counter + 1)]_vars
  /\ [](\A i \in DOMAIN sent :
          sent[i].data = IF i = 1 THEN Utf8(StartupText(0, 1)) ELSE Utf8(PeriodicText(i - 1, 1)))
  /\ [](pc \in {"startup", "setnow"} => counter = 0)
  /\ [](pc \notin {"addr", "startup", "send"} => counter = Len(sent) - 1)
  /\ [](pc = "send" => counter = Len(sent))

\* the third periodic message has gone out after a packet was received
C2_Witness ==
  /\ Len(sent) = 4
  /\ sent[4].data =
       <<109, 115, 103, 32, 110, 117, 109, 32, 51, 32, 110, 111, 100, 101, 32, 49>>  \* b"msg num 3 node 1"
  /\ sent[1].data =
       <<83, 116, 97, 114, 116, 117, 112, 32, 109, 101, 115, 115, 97, 103, 101, 32,
         48, 32, 102, 114, 111, 109, 32, 110, 111, 100, 101, 32, 49>>  \* b"Startup message 0 from node 1"
  /\ rxTotal >= 1

\* ------------------------------------------------------------------- C3
\* C3: an iteration processes at most one packet and transmits at most once;
\* an iteration that ends without a transmit was not due at its check whether
\* or not it received a packet, and a packet received in it was rendered
\* whether or not it transmitted.
C3_OnePacketOneTransmit ==
  /\ rxCount <= 1
  /\ txCount <= 1
  /\ polls <= iter
  /\ IterationEnd =>
       /\ polls = iter
       /\ txCount = 0 => ~(clock - now > IntervalTicks)
       /\ txCount = 1 => sent[Len(sent)].iter = iter
       /\ (packet # None) <=> GotPacket
       /\ GotPacket => Len(splash) = 3

\* an iteration that both rendered a packet and transmitted
C3_Witness ==
  /\ IterationEnd
  /\ rxCount = 1
  /\ txCount = 1
  /\ Len(splash) = 3

\* ------------------------------------------------------------------- C4
\* C4 (as stated): in an iteration the frame is rebuilt before receive is
\* called and receive returns before the transmit check; a packet received
\* when at least one interval had elapsed is followed in the same iteration
\* by a transmit no later than one dwell period (0.5 s) after the receipt.
C4_AsStated ==
  /\ [][pc' = "led_off" => (pc = "frame" /\ splash' = <<Background>>)]_vars
  /\ [][pc' = "receive" => pc = "led_off"]_vars
  /\ [][pc' = "check" => (pc \in {"receive", "sleep"} /\ polls' = iter)]_vars
  /\ []((pc = "check" /\ GotPacket /\ rxTime - now >= IntervalTicks) =>
          (clock - now > IntervalTicks /\ clock - rxTime <= DwellTicks))

\* C4 (amended): in an iteration the frame is rebuilt before receive is
\* called and receive returns before the transmit check; a packet received
\* when at least one interval had elapsed is followed in the same iteration
\* by a transmit, made when the sleep of line 102 returns: no earlier than
\* one dwell period after the receipt and later than that only by the
\* sleep's overrun; an iteration that received a packet and did not
\* transmit received it before the interval had elapsed.
C4_OrderAndDelay ==
  /\ [][pc' = "led_off" => (pc = "frame" /\ splash' = <<Background>>)]_vars
  /\ [][pc' = "receive" => pc = "led_off"]_vars
  /\ [][pc' = "check" => (pc \in {"receive", "sleep"} /\ polls' = iter)]_vars
  /\ [](pc = "receive" => (splash = <<Background>> /\ polls = iter - 1))
  /\ []((pc = "check" /\ GotPacket /\ rxTime - now >= IntervalTicks) =>
          /\ clock - now > IntervalTicks
          /\ clock - rxTime >= DwellTicks
          /\ clock - rxTime <= DwellTicks + Overrun)
  /\ []((IterationEnd /\ GotPacket) =>
          IF txCount = 0
          THEN rxTime - now < IntervalTicks
          ELSE /\ sent[Len(sent)].time - rxTime >= DwellTicks
               /\ sent[Len(sent)].time - rxTime <= DwellTicks + Overrun)

\* a packet arrived exactly one interval after the last transmit and the
\* transmit went out after a sleep that overran the dwell period
C4_Witness ==
  /\ IterationEnd
  /\ GotPacket
  /\ txCount = 1
  /\ Len(sent) >= 3
  /\ rxTime - sent[Len(sent) - 1].time = IntervalTicks
  /\ sent[Len(sent)].time > rxTime + DwellTicks

\* ------------------------------------------------------------------- C5
\* C5: each iteration builds one frame; while receive is pending the frame
\* holds the background only; at the end of an iteration it holds the
\* background only if nothing was received, and otherwise the background,
\* the payload line at y=10 and the line "RSSI: <value>" at y=25, in that
\* order, both of the packet of this iteration.
C5_FrameContents ==
  /\ frames = polls + (IF pc \in {"led_off", "receive"} THEN 1 ELSE 0)
  /\ pc \in {"led_off", "receive", "render"} => splash = <<Background>>
  /\ iter >= 1 => splash[1].kind = "tilegrid"
  /\ IterationEnd =>
       IF packet = None
       THEN splash = <<Background>>
       ELSE /\ Len(splash) = 3
            /\ splash[2].kind = "label" /\ splash[2].y = 10 /\ splash[2].x = 0
            /\ splash[2].text = BytesRepr(SubSeq(packet, 5, Len(packet)))
            /\ splash[2].text \in {<<98, 39, 104, 101, 108, 108, 111, 39>>,
                                  <<98, 34, 39, 96, 92, 92, 92, 120, 48, 48, 34>>}
            /\ splash[3].kind = "label" /\ splash[3].y = 25 /\ splash[3].x = 0
            /\ splash[3].text = <<82, 83, 83, 73, 58, 32>> \o IntStr(last_rssi)
            /\ refreshes = rxTotal

\* a second packet's frame shows its own two lines and nothing of the first
C5_Witness ==
  /\ IterationEnd
  /\ rxTotal = 2
  /\ Len(splash) = 3
  /\ splash[2].text =
       <<98, 39, 104, 101, 108, 108, 111, 39>>  \* b'hello'
  /\ splash[3].text =
       <<82, 83, 83, 73, 58, 32, 45, 52, 50>>  \* RSSI: -42

\* ------------------------------------------------------------------- C6
\* the message that embeds counter value k has been sent
SentValue(k) ==
  \E i \in DOMAIN sent :
    sent[i].data = IF k = 0 THEN Utf8(StartupText(0, 1)) ELSE Utf8(PeriodicText(k, 1))
\* the longest time from one transmit to the next when nothing is received
MaxGapTicks == IntervalTicks + ReceiveTimeoutTicks + Overrun + SendMax
\* the longest time from one reset of the timestamp to the next when
\* nothing is received
MaxPeriodTicks ==
  (IF SendMax > IntervalTicks THEN SendMax ELSE IntervalTicks)
    + ReceiveTimeoutTicks + Overrun
\* the counter values whose transmit fits into the clock's horizon
KLive == (MaxTime - SendMax) \div MaxPeriodTicks

\* the time a new iteration needs at most before the next periodic message
\* is handed to the radio: the rest of the interval and one iteration with
\* a receive timeout and a dwell
RoomTicks == IntervalTicks + ReceiveTimeoutTicks + DwellTicks

\* C6: if no packet ever arrives, the startup message with value 0 and then
\* every periodic message with value 1, 2, ... is eventually sent (up to the
\* horizon); the start of every iteration that leaves room before the
\* horizon is followed by another periodic send, so the sending never
\* ends; and consecutive messages are more than one interval and at most
\* one interval, one receive timeout with its overrun and one send apart.
C6_TransmitsForever ==
  /\ [](rxTotal = 0) => \A k \in 0..KLive : <>SentValue(k)
  /\ (pc = "frame" /\ clock + RoomTicks <= MaxTime) ~> (pc = "send")
  /\ [](rxTotal = 0 =>
          \A i \in DOMAIN sent : i > 1 =>
             /\ sent[i].time - sent[i - 1].time > IntervalTicks
             /\ sent[i].time - sent[i - 1].time <= MaxGapTicks)

\* a run in which no packet ever arrived has come to the horizon, where no
\* further step is possible, with values 0, 1 and 2 sent
C6_Witness ==
  /\ rxTotal = 0
  /\ pc = "receive"
  /\ ~ENABLED Next
  /\ Len(sent) >= 3
  /\ SentValue(0) /\ SentValue(1) /\ SentValue(2)
  /\ sent[3].time >= 2 * IntervalTicks

\* ------------------------------------------------------------------- C7
\* C7: exactly one startup message is sent, after the addresses are
\* assigned and before the first iteration, the first receive and every
\* periodic message; it is a broadcast and embeds counter value 0 and the
\* local node address.
C7_StartupBroadcast ==
  /\ pc \notin {"addr", "startup"} => Cardinality(Startups) = 1
  /\ \A i \in Startups :
       /\ i = 1
       /\ sent[i].iter = 0
       /\ sent[i].from = 1
       /\ sent[i].data =
            <<83, 116, 97, 114, 116, 117, 112, 32, 109, 101, 115, 115, 97, 103, 101, 32,
              48, 32, 102, 114, 111, 109, 32, 110, 111, 100, 101, 32, 49>>  \* b"Startup message 0 from node 1"
       /\ sent[i].dest = BROADCAST
  /\ pc \in {"addr", "startup"} => (sent = <<>> /\ polls = 0 /\ iter = 0)

\* ------------------------------------------------------------------- C8
\* the longest an iteration can take
MaxIterationTicks == ReceiveTimeoutTicks + DwellTicks + Overrun + SendMax

\* C8: the program counter never leaves the loop; a step is always possible
\* while the clock is short of its horizon; an iteration takes at most one
\* receive timeout, one dwell with its overrun and one send; a receive that
\* returns nothing goes to the transmit check; every iteration begun early
\* enough to fit into the horizon runs to its end, and the end of an
\* iteration is always followed by the start of the next.
C8_LoopNeverStops ==
  /\ [](iter >= 1 => pc \in {"frame", "led_off", "receive", "render", "led_on",
                             "sleep", "check", "stamp", "incr", "send"})
  /\ [](clock + ReceiveTimeoutTicks + DwellTicks <= MaxTime => ENABLED Next)
  /\ [](iter >= 1 => clock - iterStart <= MaxIterationTicks)
  /\ [][(pc = "receive" /\ packet' = None) => pc' = "check"]_vars
  /\ (pc = "led_off" /\ clock + ReceiveTimeoutTicks + DwellTicks <= MaxTime) ~> (pc = "frame")
  /\ (pc = "frame") ~> (pc = "led_off")

\* the sixth iteration is at its transmit check after an empty receive,
\* with a packet seen earlier
C8_Witness ==
  /\ iter = 6
  /\ pc = "check"
  /\ packet = None
  /\ rxTotal >= 1

\* ------------------------------------------------------------------- C9
\* C9 as stated: the indicator is off from line 79 until a packet has been
\* rendered, is switched on only after a packet was received, is on during
\* the dwell and until the next iteration's reset, and in an iteration
\* without a packet is off through the transmit to the end.
C9_AsStated ==
  /\ [][pc = "led_off" => ~led']_vars
  /\ [][(~led /\ led') => (pc = "led_on" /\ packet # None /\ GotPacket)]_vars
  /\ [][(led /\ ~led') => pc = "led_off"]_vars
  /\ [](pc \in {"receive", "render", "led_on"} => ~led)
  /\ [](pc = "sleep" => led)
  /\ [](pc \in {"check", "stamp", "incr", "send"} => (led <=> GotPacket))
  /\ []((pc = "check" /\ GotPacket) =>
          (clock - rxTime >= DwellTicks /\ clock - rxTime <= DwellTicks + Overrun))
  /\ [](IterationEnd => (led <=> GotPacket))
  /\ [](pc = "led_off" => (led <=> packet # None))

\* C9: the indicator is off from line 79 until a packet has been rendered;
\* it is switched on at line 101 after a packet and, with no packet, once
\* at line 65 before the first iteration, from where it stays on until the
\* first reset at line 79; it is switched off only at line 79; after a
\* packet it is on during the dwell and until the next iteration's reset;
\* in an iteration without a packet it is off through the transmit to the
\* end.
C9_Indicator ==
  /\ [][pc = "led_off" => ~led']_vars
  /\ [][(~led /\ led') =>
          (\/ pc = "setnow" /\ iter = 0
           \/ pc = "led_on" /\ packet # None /\ GotPacket)]_vars
  /\ [][(led /\ ~led') => pc = "led_off"]_vars
  /\ []((pc = "frame" /\ iter = 0) => led)
  /\ [](pc \in {"receive", "render", "led_on"} => ~led)
  /\ [](pc = "sleep" => led)
  /\ [](pc \in {"check", "stamp", "incr", "send"} => (led <=> GotPacket))
  /\ []((pc = "check" /\ GotPacket) =>
          (clock - rxTime >= DwellTicks /\ clock - rxTime <= DwellTicks + Overrun))
  /\ [](IterationEnd => (led <=> GotPacket))
  /\ [](pc = "led_off" => (led <=> (iter = 1 \/ packet # None)))

\* a periodic message is being sent with the indicator off, after an
\* earlier iteration had switched it on
C9_Witness ==
  /\ pc = "send"
  /\ ~led
  /\ rxCount = 0
  /\ rxTotal >= 1

\* ------------------------------------------------------------------ C10
\* C10: every packet receive returns is rendered, whatever its destination
\* byte: from the render to the end of the iteration the frame holds its
\* payload line and its RSSI line, the indicator is on after line 101, the
\* dwell has passed at the check, and every returned packet was refreshed
\* onto the display.
C10_NoAddressFilter ==
  /\ [][(pc = "receive" /\ packet' # None) => pc' = "render"]_vars
  /\ [](rxTotal = refreshes + (IF pc = "render" THEN 1 ELSE 0))
  /\ []((packet # None /\ pc \in {"led_on", "sleep", "check", "stamp", "incr", "send", "frame"}) =>
          /\ GotPacket
          /\ Len(splash) = 3
          /\ splash[2].text = BytesRepr(SubSeq(packet, 5, Len(packet)))
          /\ splash[3].text = <<82, 83, 83, 73, 58, 32>> \o IntStr(last_rssi)
          /\ pc # "led_on" => led
          /\ pc \notin {"led_on", "sleep"} => clock >= rxTime + DwellTicks)

\* a packet addressed to another node was rendered and dwelt on
C10_Witness ==
  /\ pc = "check"
  /\ packet # None
  /\ packet[1] = 2
  /\ packet[1] # node
  /\ Len(splash) = 3
  /\ led
  /\ clock = rxTime + DwellTicks

\* ------------------------------------------------------------------ C11
\* C11: rfm9x.last_rssi is read only in the render step, which directly
\* follows the receive call that returned the packet of this iteration, with
\* no send, receive or passage of time in between; an iteration whose
\* receive returned nothing reads it not at all; and the RSSI line shown is
\* the value read, the RSSI of the packet shown above it.
C11_RssiReadAfterReceive ==
  /\ [][rssiReads' > rssiReads =>
          /\ pc = "render"
          /\ packet # None
          /\ polls = iter /\ polls' = polls
          /\ rxTime = clock
          /\ sent' = sent
          /\ rssiValue' = last_rssi
          /\ rssiReads' = 2]_vars
  /\ [][rssiValue' # rssiValue => rssiReads' > rssiReads]_vars
  /\ [][pc' = "render" => (pc = "receive" /\ packet' # None /\ last_rssi' \in Rssis)]_vars
  /\ [][last_rssi' # last_rssi => (pc = "receive" /\ pc' = "render")]_vars
  /\ []((iter >= 1 /\ packet = None /\ pc \in {"check", "stamp", "incr", "send", "frame"}) =>
          rssiReads = 0)
  /\ []((IterationEnd /\ packet # None) =>
          /\ rssiReads = 2
          /\ rssiValue = last_rssi
          /\ splash[3].text = <<82, 83, 83, 73, 58, 32>> \o IntStr(rssiValue))

\* the second packet, weaker than the first, is shown with its own RSSI
C11_Witness ==
  /\ pc = "sleep"
  /\ rxTotal = 2
  /\ rssiReads = 2
  /\ rssiValue = 0 - 120
  /\ splash[3].text =
       <<82, 83, 83, 73, 58, 32, 45, 49, 50, 48>>  \* RSSI: -120
  /\ Len(sent) >= 2

\* ------------------------------------------------------------------ C12
\* C12: a periodic transmit sets the timestamp to the current time, then
\* adds 1 to the counter, then sends "msg num <counter> node <node>" with
\* the new counter and keep_listening=True, leaving the radio receiving
\* when the next iteration calls receive; in the loop the timestamp and the
\* counter change in no other step, and an iteration that is not due goes
\* from the check to the next frame.
C12_PeriodicTransmitEffect ==
  /\ [][pc = "stamp" =>
          (pc' = "incr" /\ now' = clock /\ counter' = counter /\ sent' = sent)]_vars
  /\ [][pc = "incr" =>
          (pc' = "send" /\ counter' = counter + 1 /\ now' = now /\ sent' = sent)]_vars
  /\ [][pc = "send" =>
          /\ Len(sent') = Len(sent) + 1
          /\ sent'[Len(sent')].data = <<109, 115, 103, 32, 110, 117, 109, 32>> \o IntStr(counter)
                                         \o <<32, 110, 111, 100, 101, 32, 49>>
          /\ sent'[Len(sent')].keep_listening
          /\ sent'[Len(sent')].from = 1
          /\ sent'[Len(sent')].time = now
          /\ mode' = "rx"
          /\ counter' = counter /\ now' = now]_vars
  /\ [][(iter >= 1 /\ now' # now) => pc = "stamp"]_vars
  /\ [][(iter >= 1 /\ counter' # counter) => pc = "incr"]_vars
  /\ [][(pc = "check" /\ ~(clock - now > IntervalTicks)) =>
          (pc' = "frame" /\ now' = now /\ counter' = counter)]_vars
  /\ [](\A i \in Periodic : sent[i].keep_listening)
  /\ []((pc = "receive" /\ iter >= 2) => mode = "rx")
  /\ []((pc \in {"frame", "led_off", "receive"} /\ Periodic # {}
           /\ sent[Len(sent)].iter = iter - (IF pc = "frame" THEN 0 ELSE 1)) => mode = "rx")

\* receive is about to be called right after the second periodic message
C12_Witness ==
  /\ pc = "receive"
  /\ mode = "rx"
  /\ Len(sent) = 3
  /\ sent[3].iter = iter - 1
  /\ sent[3].data =
       <<109, 115, 103, 32, 110, 117, 109, 32, 50, 32, 110, 111, 100, 101, 32, 49>>  \* b"msg num 2 node 1"
  /\ sent[3].keep_listening
  /\ counter = 2
  /\ now = sent[3].time

\* ------------------------------------------------------------------ C13
\* C13: the timestamp never decreases and is never ahead of the clock; each
\* reset moves it by more than one interval; the k-th periodic message is
\* sent more than k intervals after the loop's initial timestamp; and two
\* consecutive periodic messages are more than one interval apart however
\* late the first of them was.
C13_LatenessAccumulates ==
  /\ [][now' >= now]_vars
  /\ [](now <= clock)
  /\ [](pc \notin {"addr", "startup", "setnow"} => loopStart <= now)
  /\ [][(iter >= 1 /\ now' # now) => (now' = clock /\ now' - now > IntervalTicks)]_vars
  /\ [](\A i \in Periodic : sent[i].time - loopStart > (i - 1) * IntervalTicks)
  /\ [](\A i \in Periodic : (i - 1) \in Periodic =>
          sent[i].time - sent[i - 1].time > IntervalTicks)
  /\ [](pc \notin {"addr", "startup", "setnow", "incr"} =>
          now - loopStart > counter * IntervalTicks - (IF counter = 0 THEN 1 ELSE 0))

\* the first periodic message was late by a dwell and the second followed
\* a full interval after it, not earlier
C13_Witness ==
  /\ Len(sent) = 3
  /\ sent[2].time - loopStart >= IntervalTicks + 1 + DwellTicks
  /\ sent[3].time - sent[2].time > IntervalTicks
  /\ sent[3].time - loopStart > 2 * IntervalTicks + DwellTicks
  /\ now = sent[3].time

\* ------------------------------------------------------------------ C14
\* C14: the steps that receive and handle a packet change neither the
\* counter nor the timestamp nor the messages sent; a packet is handled in
\* the iteration whose receive returned it and is gone in the next: a
\* later empty receive clears the packet variable, the frame and the
\* indicator are reset before every receive whatever the last packet was,
\* and the transmit decision looks at the clock and the timestamp only.
C14_ReceiveKeepsSchedule ==
  /\ [][(pc \in {"receive", "render", "led_on", "sleep"}) =>
          (counter' = counter /\ now' = now /\ sent' = sent /\ txCount' = txCount)]_vars
  /\ [][(pc = "receive" /\ pc' = "check") =>
          (packet' = None /\ splash' = <<Background>> /\ ~led')]_vars
  /\ [][pc = "frame" => (splash' = <<Background>> /\ rxCount' = 0 /\ packet' = packet)]_vars
  /\ [][pc = "check" => ((pc' = "stamp") <=> (clock - now > IntervalTicks))]_vars
  /\ [](pc = "receive" => (splash = <<Background>> /\ ~led /\ rxCount = 0))
  /\ []((iter >= 1 /\ rxCount = 0 /\ pc \in {"check", "stamp", "incr", "send", "frame"}) =>
          (packet = None /\ splash = <<Background>> /\ ~led))
  /\ [](rxTotal = refreshes + (IF pc = "render" THEN 1 ELSE 0))

\* the iteration after one that showed a packet: nothing received, nothing
\* of the packet left, and the counter where the transmits put it
C14_Witness ==
  /\ pc = "check"
  /\ packet = None
  /\ rxTotal = 1
  /\ iterStart = rxTime + DwellTicks
  /\ splash = <<Background>>
  /\ ~led
  /\ counter = 1
  /\ now = sent[2].time

TypeOK ==
  /\ pc \in {"addr", "startup", "setnow", "frame", "led_off", "receive",
             "render", "led_on", "sleep", "check", "stamp", "incr", "send"}
  /\ clock \in 0..MaxTime
  /\ now \in 0..MaxTime
  /\ counter \in Nat
  /\ led \in BOOLEAN
  /\ packet \in Packets \cup {None}
====
